---- MODULE Spec2Model ----
(***************************************************************************)
(* Model of src/api.rs of yktotp-jsonapi: one invocation of serve, which   *)
(* reads one length-prefixed JSON request from stdin, dispatches it to the *)
(* YubiKey collaborators and writes one length-prefixed JSON response to   *)
(* stdout.                                                                 *)
(*                                                                         *)
(* Bytes are the integers 0..255, byte strings and Rust Strings (UTF-8)    *)
(* are sequences of bytes.  The program counts bytes and digits in u32 and *)
(* i32, so inputs of gigabytes matter to it: to give them a finite form an *)
(* element above 255 of a byte string stands for a run of '0' bytes.  A    *)
(* Result is a record with a field ok; an Err carries the variant of       *)
(* api::Error in the field err.                                            *)
(***************************************************************************)
EXTENDS Integers, Sequences, FiniteSets, TLC

\* ------------------------------------------------------------------ text
\* The byte strings the program's types and the sample inputs are made of.
T_type == <<116, 121, 112, 101>>
T_account == <<97, 99, 99, 111, 117, 110, 116>>
T_accounts == <<97, 99, 99, 111, 117, 110, 116, 115>>
T_code == <<99, 111, 100, 101>>
T_error == <<101, 114, 114, 111, 114>>
T_Code == <<67, 111, 100, 101>>
T_AccountList == <<65, 99, 99, 111, 117, 110, 116, 76, 105, 115, 116>>
T_extra == <<101, 120, 116, 114, 97>>
T_Yubikey == <<89, 117, 98, 105, 107, 101, 121>>
T_Oath == <<79, 97, 116, 104>>

Ok(v) == [ok |-> TRUE, err |-> "none", val |-> v]

Err(e) == [ok |-> FALSE, err |-> e, val |-> <<>>]

\* ------------------------------------------------------------------ runs
\* Run(n) is the element that stands for n consecutive '0' bytes (byte 48).
Run(n) == 255 + n

IsRun(e) == e > 255

RunLen(e) == e - 255

HasRun(b) == \E i \in DOMAIN b : IsRun(b[i])

Zeros(n) == [i \in 1..n |-> 48]

\* b with its runs written out as bytes (for short strings).
RECURSIVE PlainFrom(_, _)
PlainFrom(b, i) ==
    IF i > Len(b) THEN <<>>
    ELSE (IF IsRun(b[i]) THEN Zeros(RunLen(b[i])) ELSE <<b[i]>>)
         \o PlainFrom(b, i + 1)

PlainBytes(b) == IF HasRun(b) THEN PlainFrom(b, 1) ELSE b

\* A usize: a number of bytes, kept as hi * 2^24 + lo with lo < 2^24
\* because it can exceed 32-bit integers.
CountOf(n) == [hi |-> n \div 16777216, lo |-> n % 16777216]

\* c + n
CountPlus(c, n) ==
    [hi |-> c.hi + (n \div 16777216)
            + ((c.lo + (n % 16777216)) \div 16777216),
     lo |-> (c.lo + (n % 16777216)) % 16777216]

\* c - d, for d <= c
CountMinus(c, d) ==
    IF c.lo >= d.lo THEN [hi |-> c.hi - d.hi, lo |-> c.lo - d.lo]
    ELSE [hi |-> (c.hi - d.hi) - 1, lo |-> (c.lo + 16777216) - d.lo]

CountLeq(c, d) == c.hi < d.hi \/ (c.hi = d.hi /\ c.lo <= d.lo)

\* c + d
CountSum(c, d) ==
    [hi |-> c.hi + d.hi + ((c.lo + d.lo) \div 16777216),
     lo |-> (c.lo + d.lo) % 16777216]

\* A count below 2^31 as an integer.
CountInt(c) == c.hi * 16777216 + c.lo

RECURSIVE SumRuns(_, _, _)
SumRuns(runs, i, c) ==
    IF i > Len(runs) THEN c
    ELSE SumRuns(runs, i + 1, CountPlus(c, RunLen(runs[i])))

\* <[u8]>::len: the number of bytes of b.
ByteCount(b) ==
    SumRuns(SelectSeq(b, IsRun), 1,
            CountOf(Len(b) - Len(SelectSeq(b, IsRun))))

\* ------------------------------------------------------- length prefix
\* u32::to_ne_bytes: the four bytes of the u32 n (a count with hi < 256)
\* in the build's native order.
to_ne_bytes(n, endian) ==
    LET b0 == n.lo % 256
        b1 == (n.lo \div 256) % 256
        b2 == n.lo \div 65536
        b3 == n.hi
    IN  IF endian = "little" THEN <<b0, b1, b2, b3>> ELSE <<b3, b2, b1, b0>>

\* Bytes b[1..4] in little-endian significance order.
NeOrder(b, endian) ==
    IF endian = "little" THEN b ELSE <<b[4], b[3], b[2], b[1]>>

\* u32::from_ne_bytes, and usize::try_from of it (which cannot fail on the
\* 32- and 64-bit targets std supports).
from_ne_bytes(b, endian) ==
    LET l == NeOrder(b, endian)
    IN  [hi |-> l[4], lo |-> l[1] + 256 * l[2] + 65536 * l[3]]

\* ------------------------------------------------------------- streams
NoBytes == [ok |-> FALSE, val |-> <<>>, rest |-> <<>>]

\* read_exact on a stream with runs, element by element from b[i]: c bytes
\* are still to be read, acc are the bytes read.  A run that holds more
\* than c bytes is split.
RECURSIVE ReadExactFrom(_, _, _, _)
ReadExactFrom(b, i, c, acc) ==
    IF c = CountOf(0)
    THEN [ok |-> TRUE, val |-> acc, rest |-> SubSeq(b, i, Len(b))]
    ELSE IF i > Len(b) THEN NoBytes
    ELSE IF ~IsRun(b[i])
    THEN ReadExactFrom(b, i + 1, CountMinus(c, CountOf(1)), Append(acc, b[i]))
    ELSE IF CountLeq(CountOf(RunLen(b[i])), c)
    THEN ReadExactFrom(b, i + 1, CountMinus(c, CountOf(RunLen(b[i]))),
                       Append(acc, b[i]))
    ELSE [ok |-> TRUE, val |-> Append(acc, Run(CountInt(c))),
          rest |-> <<Run(RunLen(b[i]) - CountInt(c))>>
                   \o SubSeq(b, i + 1, Len(b))]

\* Read::read_exact on the stream b for a buffer of c bytes: the c bytes at
\* the front of b and the rest of the stream, or failure when fewer than c
\* bytes are there (the slice reader then consumes what was left).
read_exact(b, c) ==
    IF HasRun(b) THEN ReadExactFrom(b, 1, c, <<>>)
    ELSE IF CountLeq(c, CountOf(Len(b)))
    THEN [ok |-> TRUE, val |-> SubSeq(b, 1, CountInt(c)),
          rest |-> SubSeq(b, CountInt(c) + 1, Len(b))]
    ELSE NoBytes

\* read_input fails: Error::Read, the stream is consumed.
ReadFailed(stream) ==
    [ok |-> FALSE, err |-> "Read", val |-> <<>>, pos |-> ByteCount(stream)]

\* read_input returns the payload; pos tells how many bytes of the stream
\* are consumed (those that are not in the rest).
ReadPayload(stream, payload) ==
    IF ~payload.ok THEN ReadFailed(stream)
    ELSE [ok |-> TRUE, err |-> "none", val |-> payload.val,
          pos |-> CountMinus(ByteCount(stream), ByteCount(payload.rest))]

\* The length the four prefix bytes hold.
InputLength(prefix, endian) == from_ne_bytes(PlainBytes(prefix.val), endian)

\* read_input with read in place of read_exact for the payload: a stream
\* that ends early yields the bytes that were there.
read_input_available(stream, endian) ==
    LET prefix == read_exact(stream, CountOf(4))
    IN  IF ~prefix.ok THEN ReadFailed(stream)
        ELSE IF read_exact(prefix.rest, InputLength(prefix, endian)).ok
        THEN ReadPayload(stream, read_exact(prefix.rest,
                                            InputLength(prefix, endian)))
        ELSE [ok |-> TRUE, err |-> "none", val |-> prefix.rest,
              pos |-> ByteCount(stream)]

\* read_input with read_to_end in place of read_exact for the payload.
read_input_to_end(stream, endian) ==
    LET prefix == read_exact(stream, CountOf(4))
    IN  IF ~prefix.ok THEN ReadFailed(stream)
        ELSE IF ~read_exact(prefix.rest, InputLength(prefix, endian)).ok
        THEN ReadFailed(stream)
        ELSE [ok |-> TRUE, err |-> "none", val |-> prefix.rest,
              pos |-> ByteCount(stream)]

\* read_input (api.rs 85-97): the 4-byte prefix, then exactly as many bytes
\* as it declares, whatever it declares: it fails only when the stream ends
\* before them.
read_input(stream, endian) ==
    LET prefix == read_exact(stream, CountOf(4))
    IN  IF ~prefix.ok THEN ReadFailed(stream)
        ELSE ReadPayload(stream, read_exact(prefix.rest,
                                            InputLength(prefix, endian)))

\* ---------------------------------------------------------------- UTF-8
IsCont(b, i) == i <= Len(b) /\ b[i] >= 128 /\ b[i] <= 191

\* The length of the well-formed UTF-8 sequence starting at b[i], 0 if none
\* (std::str::from_utf8: no overlong forms, no surrogates, at most U+10FFFF).
Utf8SeqLen(b, i) ==
    LET c == b[i]
    IN  IF c < 128 \/ IsRun(c) THEN 1
        ELSE IF c >= 194 /\ c <= 223
        THEN (IF IsCont(b, i + 1) THEN 2 ELSE 0)
        ELSE IF c >= 224 /\ c <= 239
        THEN (IF /\ IsCont(b, i + 1) /\ IsCont(b, i + 2)
                 /\ (c = 224 => b[i + 1] >= 160)
                 /\ (c = 237 => b[i + 1] <= 159)
              THEN 3 ELSE 0)
        ELSE IF c >= 240 /\ c <= 244
        THEN (IF /\ IsCont(b, i + 1) /\ IsCont(b, i + 2) /\ IsCont(b, i + 3)
                 /\ (c = 240 => b[i + 1] >= 144)
                 /\ (c = 244 => b[i + 1] <= 143)
              THEN 4 ELSE 0)
        ELSE 0

RECURSIVE Utf8From(_, _)
Utf8From(b, i) ==
    IF i > Len(b) THEN TRUE
    ELSE LET n == Utf8SeqLen(b, i)
         IN  IF n = 0 THEN FALSE ELSE Utf8From(b, i + n)

\* std::str::from_utf8(raw_input).is_ok()
from_utf8_ok(b) == Utf8From(b, 1)

\* char::encode_utf8 of a code point (not a surrogate).
encode_utf8(cp) ==
    IF cp < 128 THEN <<cp>>
    ELSE IF cp < 2048 THEN <<192 + (cp \div 64), 128 + (cp % 64)>>
    ELSE IF cp < 65536
    THEN <<224 + (cp \div 4096), 128 + ((cp \div 64) % 64), 128 + (cp % 64)>>
    ELSE <<240 + (cp \div 262144), 128 + ((cp \div 4096) % 64),
           128 + ((cp \div 64) % 64), 128 + (cp % 64)>>

\* ------------------------------------------------- serde_json: parsing
\* A parsed JSON value: its kind k ("str", "num", "bool", "null", "arr",
\* "obj"), the position pos after it, the bytes s of a string, and for an
\* array or object its children kids, each [key, k, s] (what the visitors
\* of Request look at; deeper levels are only checked for syntax, number
\* range and nesting depth).
Fail == [ok |-> FALSE, pos |-> 0, k |-> "none", s |-> <<>>, kids |-> <<>>]

\* An arithmetic overflow in a build with overflow checks: the thread
\* panics ("attempt to add with overflow") and nothing is returned.  where
\* is the value the scanner was in ("num", or the enclosing "arr" or
\* "obj"), kids the children of that array or object up to and including
\* the one that panicked.
PanicIn(where, ch) ==
    [ok |-> FALSE, pos |-> 0, k |-> "panic", s |-> <<>>, kids |-> ch,
     where |-> where]

Panic == PanicIn("num", <<>>)

Parsed(kind, p, str, ch) ==
    [ok |-> TRUE, pos |-> p, k |-> kind, s |-> str, kids |-> ch]

IsWs(c) == c \in {32, 9, 10, 13}

IsDigit(c) == c >= 48 /\ c <= 57

RECURSIVE SkipWs(_, _)
SkipWs(b, i) ==
    IF i <= Len(b) /\ IsWs(b[i]) THEN SkipWs(b, i + 1) ELSE i

At(b, i, c) == i <= Len(b) /\ b[i] = c

HexVal(c) ==
    IF IsDigit(c) THEN c - 48
    ELSE IF c >= 65 /\ c <= 70 THEN c - 55
    ELSE IF c >= 97 /\ c <= 102 THEN c - 87
    ELSE -1

\* The value of four hex digits at b[i..i+3], -1 if they are not there.
ParseHex4(b, i) ==
    IF i + 3 > Len(b) THEN -1
    ELSE IF \E j \in 0..3 : HexVal(b[i + j]) < 0 THEN -1
    ELSE 4096 * HexVal(b[i]) + 256 * HexVal(b[i + 1])
         + 16 * HexVal(b[i + 2]) + HexVal(b[i + 3])

SimpleEscape(e) ==
    CASE e = 34 -> 34
      [] e = 92 -> 92
      [] e = 47 -> 47
      [] e = 98 -> 8
      [] e = 102 -> 12
      [] e = 110 -> 10
      [] e = 114 -> 13
      [] e = 116 -> 9
      [] OTHER -> -1

\* Whether the byte ends a stretch of plain bytes in a string: a quote, a
\* backslash or a control character.
IsEscape(c) == c = 34 \/ c = 92 \/ c < 32

\* skip_to_escape: the first index from i on that holds such a byte, the
\* end of b if none does.
skip_to_escape(b, i) ==
    IF \E j \in i..Len(b) : IsEscape(b[j])
    THEN CHOOSE j \in i..Len(b) :
             IsEscape(b[j]) /\ \A m \in i..(j - 1) : ~IsEscape(b[m])
    ELSE Len(b) + 1

\* The body of a string from b[i] (after the opening quote) to its closing
\* quote, escapes decoded; raw control characters and lone surrogates fail.
\* The plain bytes up to the next escape are taken over at once.
RECURSIVE StrLoop(_, _, _)
StrLoop(b, i, acc) ==
    IF i > Len(b) THEN Fail
    ELSE IF skip_to_escape(b, i) > i
    THEN StrLoop(b, skip_to_escape(b, i),
                 acc \o SubSeq(b, i, skip_to_escape(b, i) - 1))
    ELSE IF b[i] = 34 THEN Parsed("str", i + 1, acc, <<>>)
    ELSE IF b[i] = 92
    THEN IF i + 1 > Len(b) THEN Fail
         ELSE IF b[i + 1] = 117
         THEN LET h == ParseHex4(b, i + 2)
              IN  IF h < 0 \/ (h >= 56320 /\ h <= 57343) THEN Fail
                  ELSE IF h >= 55296 /\ h <= 56319
                  THEN LET h2 == IF At(b, i + 6, 92) /\ At(b, i + 7, 117)
                                 THEN ParseHex4(b, i + 8) ELSE -1
                       IN  IF h2 < 56320 \/ h2 > 57343 THEN Fail
                           ELSE StrLoop(b, i + 12, acc \o encode_utf8(
                                    65536 + (h - 55296) * 1024 + (h2 - 56320)))
                  ELSE StrLoop(b, i + 6, acc \o encode_utf8(h))
         ELSE IF SimpleEscape(b[i + 1]) < 0 THEN Fail
         ELSE StrLoop(b, i + 2, Append(acc, SimpleEscape(b[i + 1])))
    ELSE Fail

\* The digits b[i] stands for: one, those of a run, or none.
DigitCount(b, i) ==
    IF i > Len(b) THEN 0
    ELSE IF IsRun(b[i]) THEN RunLen(b[i])
    ELSE IF IsDigit(b[i]) THEN 1
    ELSE 0

RECURSIVE SkipDigits(_, _)
SkipDigits(b, i) ==
    IF DigitCount(b, i) > 0 THEN SkipDigits(b, i + 1) ELSE i

RECURSIVE DecValue(_, _, _, _)
DecValue(b, i, end, acc) ==
    IF i >= end THEN acc ELSE DecValue(b, i + 1, end, 10 * acc + (b[i] - 48))

\* The number scanner of serde_json (parse_any_number and what it calls).
\* The significand is a u64; it is kept here as its decimal digits, most
\* significant first and without leading zeros (<<>> is 0), because it
\* exceeds 32-bit integers.  The exponents are i32.

\* The decimal digits of u64::MAX, 18446744073709551615.
U64MaxDigits ==
    <<1, 8, 4, 4, 6, 7, 4, 4, 0, 7, 3, 7, 0, 9, 5, 5, 1, 6, 1, 5>>

\* a > b for two naturals given by their digits.
NatGt(a, b) ==
    \/ Len(a) > Len(b)
    \/ /\ Len(a) = Len(b)
       /\ \E j \in 1..Len(a) :
              a[j] > b[j] /\ \A m \in 1..(j - 1) : a[m] = b[m]

\* significand * 10 + digit
PushDigit(significand, digit) ==
    IF significand = <<>> /\ digit = 0 THEN <<>>
    ELSE Append(significand, digit)

\* overflow!(significand * 10 + digit, u64::MAX)
OverflowU64(significand, digit) ==
    NatGt(PushDigit(significand, digit), U64MaxDigits)

\* overflow!(exp * 10 + digit, i32::MAX)
OverflowI32(exp, digit) ==
    exp >= 214748364 /\ (exp > 214748364 \/ digit > 7)

\* Whether the i32 sum a + b overflows, and the sum as a build without
\* overflow checks computes it (two's complement, modulo 2^32).
AddOverflows(a, b) ==
    \/ b > 0 /\ a > 2147483647 - b
    \/ b < 0 /\ a < ((0 - 2147483647) - 1) - b

WrappingAdd(a, b) ==
    IF b > 0 /\ a > 2147483647 - b
    THEN ((a - 2147483647) - 1) + ((b - 2147483647) - 1)
    ELSE IF b < 0 /\ a < ((0 - 2147483647) - 1) - b
    THEN ((a + 2147483647) + 1) + ((b + 2147483647) + 1)
    ELSE a + b

\* i32::saturating_add and saturating_sub for an operand exp >= 0.
saturating_add(starting_exp, exp) ==
    IF starting_exp > 0 /\ exp > 2147483647 - starting_exp THEN 2147483647
    ELSE starting_exp + exp

saturating_sub(starting_exp, exp) ==
    IF starting_exp < 0 /\ exp > starting_exp + 2147483647
    THEN (0 - 2147483647) - 1
    ELSE starting_exp - exp

\* For the exponents 289..308, the least significand s for which the f64
\* product (s as f64) * POW10[exponent] is infinite: the conversion of s to
\* f64 rounds to nearest, POW10[e] is the f64 nearest to 10^e, and the
\* product is infinite from 2^1024 - 2^970 on.  Below exponent 289 no u64
\* gives an infinite product.
InfiniteFrom ==
    << <<1, 7, 9, 7, 6, 9, 3, 1, 3, 4, 8, 6, 2, 3, 1, 5, 6, 2, 2, 5>>,
       <<1, 7, 9, 7, 6, 9, 3, 1, 3, 4, 8, 6, 2, 3, 1, 5, 6, 4, 9>>,
       <<1, 7, 9, 7, 6, 9, 3, 1, 3, 4, 8, 6, 2, 3, 1, 6, 0, 0>>,
       <<1, 7, 9, 7, 6, 9, 3, 1, 3, 4, 8, 6, 2, 3, 1, 5, 8>>,
       <<1, 7, 9, 7, 6, 9, 3, 1, 3, 4, 8, 6, 2, 3, 1, 6>>,
       <<1, 7, 9, 7, 6, 9, 3, 1, 3, 4, 8, 6, 2, 3, 2>>,
       <<1, 7, 9, 7, 6, 9, 3, 1, 3, 4, 8, 6, 2, 4>>,
       <<1, 7, 9, 7, 6, 9, 3, 1, 3, 4, 8, 6, 3>>,
       <<1, 7, 9, 7, 6, 9, 3, 1, 3, 4, 8, 7>>,
       <<1, 7, 9, 7, 6, 9, 3, 1, 3, 4, 9>>,
       <<1, 7, 9, 7, 6, 9, 3, 1, 3, 5>>,
       <<1, 7, 9, 7, 6, 9, 3, 1, 4>>,
       <<1, 7, 9, 7, 6, 9, 3, 2>>,
       <<1, 7, 9, 7, 6, 9, 4>>,
       <<1, 7, 9, 7, 7, 0>>,
       <<1, 7, 9, 7, 7>>,
       <<1, 7, 9, 8>>,
       <<1, 8, 0>>,
       <<1, 8>>,
       <<2>> >>

\* Whether f64_from_parts fails with "number out of range": the significand
\* is not 0 and either the exponent is beyond the table POW10 (0..308) or
\* the product with the power of ten is infinite.  A negative exponent
\* divides and never fails.
OutOfRange(significand, exponent) ==
    /\ significand # <<>>
    /\ \/ exponent > 308
       \/ /\ exponent >= 289
          /\ exponent <= 308
          /\ ~NatGt(InfiniteFrom[exponent - 288], significand)

\* f64_from_parts, the number ending before b[p].
f64_from_parts(p, significand, exponent) ==
    IF OutOfRange(significand, exponent) THEN Fail
    ELSE Parsed("num", p, <<>>, <<>>)

\* parse_exponent_overflow: the exponent does not fit an i32.
parse_exponent_overflow(b, i, significand, positive_exp) ==
    IF significand # <<>> /\ positive_exp THEN Fail
    ELSE Parsed("num", SkipDigits(b, i), <<>>, <<>>)

\* The digits of the exponent after the first, exp being their value so far.
\* (A run is met with exp = 0 only, which its zeros leave 0.)
RECURSIVE ExponentLoop(_, _, _, _, _, _)
ExponentLoop(b, i, significand, starting_exp, positive_exp, exp) ==
    IF i <= Len(b) /\ IsRun(b[i]) /\ exp = 0
    THEN ExponentLoop(b, i + 1, significand, starting_exp, positive_exp, 0)
    ELSE IF i <= Len(b) /\ IsDigit(b[i])
    THEN IF OverflowI32(exp, b[i] - 48)
         THEN parse_exponent_overflow(b, i + 1, significand, positive_exp)
         ELSE ExponentLoop(b, i + 1, significand, starting_exp, positive_exp,
                           exp * 10 + (b[i] - 48))
    ELSE f64_from_parts(i, significand,
                        IF positive_exp
                        THEN saturating_add(starting_exp, exp)
                        ELSE saturating_sub(starting_exp, exp))

\* The first digit of the exponent, which must be there.
ExponentFirst(b, i, significand, starting_exp, positive_exp) ==
    IF i <= Len(b) /\ IsDigit(b[i])
    THEN ExponentLoop(b, i + 1, significand, starting_exp, positive_exp,
                      b[i] - 48)
    ELSE Fail

\* parse_exponent, b[i] being the 'e' or 'E'.
parse_exponent(b, i, significand, starting_exp) ==
    IF At(b, i + 1, 43)
    THEN ExponentFirst(b, i + 2, significand, starting_exp, TRUE)
    ELSE IF At(b, i + 1, 45)
    THEN ExponentFirst(b, i + 2, significand, starting_exp, FALSE)
    ELSE ExponentFirst(b, i + 1, significand, starting_exp, TRUE)

IsExponentMark(b, i) == At(b, i, 101) \/ At(b, i, 69)

\* After the fraction digits: an exponent, or the end of the number.
DecimalEnd(b, i, significand, exponent) ==
    IF IsExponentMark(b, i) THEN parse_exponent(b, i, significand, exponent)
    ELSE f64_from_parts(i, significand, exponent)

\* parse_decimal_overflow: the significand is full, the further fraction
\* digits are dropped.
parse_decimal_overflow(b, i, significand, exponent) ==
    DecimalEnd(b, SkipDigits(b, i), significand, exponent)

\* The end of the fraction digits, the i32 sum of the two exponents formed
\* (`exponent_before_decimal_point + exponent_after_decimal_point`).
DecimalSum(b, i, significand, exponent_before, exponent_after, full, checks) ==
    IF checks /\ AddOverflows(exponent_before, exponent_after) THEN Panic
    ELSE IF full
    THEN parse_decimal_overflow(b, i, significand,
                                WrappingAdd(exponent_before, exponent_after))
    ELSE DecimalEnd(b, i, significand,
                    WrappingAdd(exponent_before, exponent_after))

\* The fraction digits from b[i], each moving the exponent down by one
\* (`exponent_after_decimal_point -= 1` on an i32: past i32::MIN a build
\* with overflow checks panics, another wraps to i32::MAX).  A run is met
\* with the significand 0 only, which its zeros leave 0: its iterations
\* are taken at once.
RECURSIVE DecimalLoop(_, _, _, _, _, _)
DecimalLoop(b, i, significand, exponent_before, exponent_after, checks) ==
    IF i <= Len(b) /\ IsRun(b[i]) /\ significand = <<>>
    THEN IF AddOverflows(exponent_after, 0 - RunLen(b[i])) /\ checks
         THEN Panic
         ELSE DecimalLoop(b, i + 1, significand, exponent_before,
                          WrappingAdd(exponent_after, 0 - RunLen(b[i])),
                          checks)
    ELSE IF i <= Len(b) /\ IsDigit(b[i])
    THEN IF OverflowU64(significand, b[i] - 48)
         THEN DecimalSum(b, i, significand, exponent_before, exponent_after,
                         TRUE, checks)
         ELSE IF AddOverflows(exponent_after, 0 - 1) /\ checks THEN Panic
         ELSE DecimalLoop(b, i + 1, PushDigit(significand, b[i] - 48),
                          exponent_before, WrappingAdd(exponent_after, 0 - 1),
                          checks)
    ELSE IF exponent_after = 0 THEN Fail
    ELSE DecimalSum(b, i, significand, exponent_before, exponent_after,
                    FALSE, checks)

\* parse_decimal, b[i] being the '.'.
parse_decimal(b, i, significand, exponent_before, checks) ==
    DecimalLoop(b, i + 1, significand, exponent_before, 0, checks)

\* parse_long_integer: the integer digits that no longer fit the
\* significand, from b[i]; each moves the exponent up by one
\* (`exponent += 1` on an i32: past i32::MAX a build with overflow checks
\* panics, another wraps to i32::MIN).  The iterations over a run are
\* taken at once.
RECURSIVE parse_long_integer(_, _, _, _, _)
parse_long_integer(b, i, significand, exponent, checks) ==
    IF DigitCount(b, i) > 0
    THEN IF AddOverflows(exponent, DigitCount(b, i)) /\ checks THEN Panic
         ELSE parse_long_integer(b, i + 1, significand,
                                 WrappingAdd(exponent, DigitCount(b, i)),
                                 checks)
    ELSE IF At(b, i, 46)
    THEN parse_decimal(b, i, significand, exponent, checks)
    ELSE IF IsExponentMark(b, i)
    THEN parse_exponent(b, i, significand, exponent)
    ELSE f64_from_parts(i, significand, exponent)

\* parse_number: what follows integer digits that fit a u64.
parse_number(b, i, significand, checks) ==
    IF At(b, i, 46) THEN parse_decimal(b, i, significand, 0, checks)
    ELSE IF IsExponentMark(b, i) THEN parse_exponent(b, i, significand, 0)
    ELSE Parsed("num", i, <<>>, <<>>)

\* The integer digits after the first.
RECURSIVE IntegerLoop(_, _, _, _)
IntegerLoop(b, i, significand, checks) ==
    IF i <= Len(b) /\ IsDigit(b[i])
    THEN IF OverflowU64(significand, b[i] - 48)
         THEN parse_long_integer(b, i, significand, 0, checks)
         ELSE IntegerLoop(b, i + 1, PushDigit(significand, b[i] - 48), checks)
    ELSE parse_number(b, i, significand, checks)

\* parse_integer: a single 0, or a digit 1..9 and further digits.
parse_integer(b, i, checks) ==
    IF i > Len(b) THEN Fail
    ELSE IF b[i] = 48
    THEN IF i + 1 <= Len(b) /\ IsDigit(b[i + 1]) THEN Fail
         ELSE parse_number(b, i + 1, <<>>, checks)
    ELSE IF IsDigit(b[i]) THEN IntegerLoop(b, i + 1, <<b[i] - 48>>, checks)
    ELSE Fail

\* parse_any_number at b[i] (a '-' or a digit).
parse_any_number(b, i, checks) ==
    parse_integer(b, IF b[i] = 45 THEN i + 1 ELSE i, checks)

\* Whether the bytes of word stand at b[i..].
Matches(b, i, word) ==
    /\ i + Len(word) - 1 <= Len(b)
    /\ \A j \in 1..Len(word) : b[i + j - 1] = word[j]

Child(key, v) == [key |-> key, k |-> v.k, s |-> v.s]

\* The child during whose parsing the thread panicked; where tells whether
\* the child is itself the number ("num") or an array or object holding it.
PanicChild(key, v) ==
    [key |-> key, k |-> "panic", s |-> <<>>, where |-> v.where]

\* The recursion limit of serde_json's Deserializer (remaining_depth).
RecursionLimit == 128

RECURSIVE ParseValue(_, _, _, _)
RECURSIVE ArrElement(_, _, _, _, _)
RECURSIVE ObjEntry(_, _, _, _, _)

\* After an array element: ']' ends the array, ',' needs another element.
ArrNext(b, j, kids, depth, checks) ==
    IF At(b, j, 93) THEN Parsed("arr", j + 1, <<>>, kids)
    ELSE IF At(b, j, 44)
    THEN ArrElement(b, SkipWs(b, j + 1), kids, depth, checks)
    ELSE Fail

\* An element that fails or panics ends the array so.
ArrValue(b, acc, v, depth, checks) ==
    IF ~v.ok
    THEN IF v.k = "panic" THEN PanicIn("arr", Append(acc, PanicChild(<<>>, v)))
         ELSE Fail
    ELSE ArrNext(b, SkipWs(b, v.pos), Append(acc, Child(<<>>, v)), depth,
                 checks)

\* The element of an array at b[i] and the rest of the array.
ArrElement(b, i, acc, depth, checks) ==
    ArrValue(b, acc, ParseValue(b, i, depth, checks), depth, checks)

\* After an object entry: '}' ends the object, ',' needs another entry.
ObjNext(b, j, kids, depth, checks) ==
    IF At(b, j, 125) THEN Parsed("obj", j + 1, <<>>, kids)
    ELSE IF At(b, j, 44)
    THEN ObjEntry(b, SkipWs(b, j + 1), kids, depth, checks)
    ELSE Fail

\* A value that fails or panics ends the object so.
ObjValue(b, acc, key, v, depth, checks) ==
    IF ~v.ok
    THEN IF v.k = "panic" THEN PanicIn("obj", Append(acc, PanicChild(key.s, v)))
         ELSE Fail
    ELSE ObjNext(b, SkipWs(b, v.pos), Append(acc, Child(key.s, v)), depth,
                 checks)

ObjColon(b, acc, key, c, depth, checks) ==
    IF ~At(b, c, 58) THEN Fail
    ELSE ObjValue(b, acc, key,
                  ParseValue(b, SkipWs(b, c + 1), depth, checks), depth,
                  checks)

ObjKey(b, acc, key, depth, checks) ==
    IF ~key.ok THEN Fail
    ELSE ObjColon(b, acc, key, SkipWs(b, key.pos), depth, checks)

\* The entry of an object whose key starts at b[i], and the rest of it.
ObjEntry(b, i, acc, depth, checks) ==
    IF ~At(b, i, 34) THEN Fail
    ELSE ObjKey(b, acc, StrLoop(b, i + 1, <<>>), depth, checks)

\* check_recursion! on entering an array or an object: remaining_depth is
\* lowered by one and must not reach 0.
ArrStart(b, j, depth, checks) ==
    IF depth = 0 THEN Fail
    ELSE IF At(b, j, 93) THEN Parsed("arr", j + 1, <<>>, <<>>)
    ELSE ArrElement(b, j, <<>>, depth, checks)

ObjStart(b, j, depth, checks) ==
    IF depth = 0 THEN Fail
    ELSE IF At(b, j, 125) THEN Parsed("obj", j + 1, <<>>, <<>>)
    ELSE ObjEntry(b, j, <<>>, depth, checks)

Literal(b, i, word, kind) ==
    IF Matches(b, i, word) THEN Parsed(kind, i + Len(word), <<>>, <<>>)
    ELSE Fail

\* One JSON value starting at b[i] (whitespace already skipped), depth
\* being the deserializer's remaining_depth and checks whether the build
\* has overflow checks.
ParseValue(b, i, depth, checks) ==
    IF i > Len(b) THEN Fail
    ELSE IF b[i] = 34 THEN StrLoop(b, i + 1, <<>>)
    ELSE IF b[i] = 123 THEN ObjStart(b, SkipWs(b, i + 1), depth - 1, checks)
    ELSE IF b[i] = 91 THEN ArrStart(b, SkipWs(b, i + 1), depth - 1, checks)
    ELSE IF b[i] = 116 THEN Literal(b, i, <<116, 114, 117, 101>>, "bool")
    ELSE IF b[i] = 102 THEN Literal(b, i, <<102, 97, 108, 115, 101>>, "bool")
    ELSE IF b[i] = 110 THEN Literal(b, i, <<110, 117, 108, 108>>, "null")
    ELSE IF b[i] = 45 \/ IsDigit(b[i]) THEN parse_any_number(b, i, checks)
    ELSE Fail

\* ------------------------------------------- Request and its Deserialize
\* enum Request (api.rs 11-16), internally tagged by "type".
RequestAccountList == [type |-> "AccountList"]

RequestCode(account) == [type |-> "Code", account |-> account]

\* The variant a tag value names (the derived variant identifier accepts a
\* string only), "none" if it names none.
VariantOf(child) ==
    IF child.k # "str" THEN "none"
    ELSE IF child.s = T_AccountList THEN "AccountList"
    ELSE IF child.s = T_Code THEN "Code"
    ELSE "none"

NoRequest == [ok |-> FALSE, panic |-> FALSE, req |-> [type |-> "none"]]

\* The thread panicked while the value was parsed.
Panicked == [ok |-> FALSE, panic |-> TRUE, req |-> [type |-> "none"]]

\* The derived Deserialize of Request on a JSON object: the entry "type"
\* must occur exactly once and name a variant; the other entries are the
\* content.  AccountList ignores the content; Code needs exactly one
\* "account" entry, a string, and ignores entries with other keys.
DeserializeMap(kids) ==
    LET tags == SelectSeq(kids, LAMBDA e : e.key = T_type)
        content == SelectSeq(kids, LAMBDA e : e.key # T_type)
        accounts == SelectSeq(content, LAMBDA e : e.key = T_account)
    IN  IF Len(tags) # 1 THEN NoRequest
        ELSE IF VariantOf(tags[1]) = "AccountList"
        THEN [ok |-> TRUE, req |-> RequestAccountList]
        ELSE IF VariantOf(tags[1]) = "Code"
        THEN IF Len(accounts) = 1 /\ accounts[1].k = "str"
             THEN [ok |-> TRUE, req |-> RequestCode(accounts[1].s)]
             ELSE NoRequest
        ELSE NoRequest

\* The derived Deserialize of Request on a JSON array (serde accepts the
\* tag as the first element and the variant's fields in order after it).
DeserializeSeq(kids) ==
    IF Len(kids) = 0 THEN NoRequest
    ELSE IF VariantOf(kids[1]) = "AccountList"
    THEN IF Len(kids) = 1 THEN [ok |-> TRUE, req |-> RequestAccountList]
         ELSE NoRequest
    ELSE IF VariantOf(kids[1]) = "Code"
    THEN IF Len(kids) = 2 /\ kids[2].k = "str"
         THEN [ok |-> TRUE, req |-> RequestCode(kids[2].s)]
         ELSE NoRequest
    ELSE NoRequest

\* Whether the tag t is refused without its value being parsed to the end.
\* The variant identifier is read with deserialize_str: a string is
\* matched against the variant names; a number is parsed before it is
\* refused as of the wrong type (so the scanner can still panic in it); an
\* array or an object is refused at its opening bracket, its content is
\* never parsed.
TagRefused(t) ==
    IF t.k = "panic" THEN t.where # "num" ELSE VariantOf(t) = "none"

\* Whether the visitor of the tagged enum has returned an error before the
\* parser panics in the last of kids.  It reads the entries of an object
\* in order and fails at a second "type" key before its value is parsed,
\* and at the value of "type" when that is refused; of an array it reads
\* the first element as the tag.
TagErrorBeforePanic(v) ==
    IF v.where = "obj"
    THEN LET tags == SelectSeq(v.kids, LAMBDA e : e.key = T_type)
         IN  \/ Len(tags) >= 2
             \/ Len(tags) = 1 /\ TagRefused(tags[1])
    ELSE IF v.where = "arr"
    THEN TagRefused(v.kids[1])
    ELSE FALSE

\* The derived Deserialize of Request on a parsed value: serde buffers an
\* object or an array and hands it to the variant the tag names.
FromValue(v) ==
    IF v.k = "panic"
    THEN IF TagErrorBeforePanic(v) THEN NoRequest ELSE Panicked
    ELSE IF ~v.ok THEN NoRequest
    ELSE IF v.k = "obj" THEN DeserializeMap(v.kids)
    ELSE IF v.k = "arr" THEN DeserializeSeq(v.kids)
    ELSE NoRequest

\* Deserializer::end: only whitespace may follow the value.
EndOk(input, v) == SkipWs(input, v.pos) > Len(input)

\* The value is deserialized first; Deserializer::end is reached only when
\* that succeeded.
FromStrValue(input, v) ==
    IF v.ok /\ FromValue(v).ok /\ ~EndOk(input, v) THEN NoRequest
    ELSE FromValue(v)

\* b with the first 20 bytes of every stretch of runs written out.  The
\* scanner settles within 20 bytes '0': a significand other than 0 is
\* full, an exponent other than 0 overflows, an escape in a string has
\* ended (or the text is refused).  So it meets what is left of the runs
\* only in a loop whose iterations over '0' bytes are all alike.
RECURSIVE UnrollFrom(_, _)
UnrollFrom(b, i) ==
    IF i > Len(b) THEN <<>>
    ELSE IF ~IsRun(b[i]) THEN <<b[i]>> \o UnrollFrom(b, i + 1)
    ELSE IF i > 1 /\ IsRun(b[i - 1]) /\ RunLen(b[i - 1]) > 20
    THEN <<b[i]>> \o UnrollFrom(b, i + 1)
    ELSE IF RunLen(b[i]) <= 20
    THEN Zeros(RunLen(b[i])) \o UnrollFrom(b, i + 1)
    ELSE Zeros(20) \o <<Run(RunLen(b[i]) - 20)>> \o UnrollFrom(b, i + 1)

Unroll(b) == IF HasRun(b) THEN UnrollFrom(b, 1) ELSE b

\* serde_json's from_trait on the input: Request::deserialize, then
\* Deserializer::end.
from_trait(input, overflow_checks) ==
    FromStrValue(input, ParseValue(input, SkipWs(input, 1), RecursionLimit,
                                   overflow_checks))

\* serde_json::from_str::<Request>: one value, then only whitespace.
from_str(input, overflow_checks) == from_trait(Unroll(input), overflow_checks)

\* The outcome of a call during which the thread panicked: no value is
\* returned, the stack unwinds through serve.
Unwinds == [ok |-> FALSE, err |-> "Panic", val |-> <<>>]

\* deserialize_request (api.rs 103-106): both map_err give Error::Read.
\* overflow_checks: whether the build has overflow checks (a debug build)
\* or wraps (a release build).
deserialize_request(raw_input, overflow_checks) ==
    IF ~from_utf8_ok(raw_input) THEN Err("Read")
    ELSE LET r == from_str(raw_input, overflow_checks)
         IN  IF r.ok THEN Ok(r.req)
             ELSE IF r.panic THEN Unwinds
             ELSE Err("Read")

\* ------------------------------------------- Response and its Serialize
\* enum Response (api.rs 18-24), untagged.
ResponseCode(account, code) ==
    [kind |-> "Code", account |-> account, code |-> code]

ResponseAccountList(accounts) == [kind |-> "AccountList", accounts |-> accounts]

ResponseError(error) == [kind |-> "Error", error |-> error]

HexDigit(n) == IF n < 10 THEN 48 + n ELSE 87 + n

\* serde_json's escape of one byte of a string.
EscapeByte(c) ==
    CASE c = 34 -> <<92, 34>>
      [] c = 92 -> <<92, 92>>
      [] c = 8 -> <<92, 98>>
      [] c = 12 -> <<92, 102>>
      [] c = 10 -> <<92, 110>>
      [] c = 13 -> <<92, 114>>
      [] c = 9 -> <<92, 116>>
      [] OTHER -> IF c < 32
                  THEN <<92, 117, 48, 48, HexDigit(c \div 16), HexDigit(c % 16)>>
                  ELSE <<c>>

\* The escapes of the bytes s[lo..hi] in order (the range is halved, so
\* that long strings nest a few levels only).
RECURSIVE EscapeRange(_, _, _)
EscapeRange(s, lo, hi) ==
    IF lo > hi THEN <<>>
    ELSE IF lo = hi THEN EscapeByte(s[lo])
    ELSE EscapeRange(s, lo, (lo + hi) \div 2)
         \o EscapeRange(s, ((lo + hi) \div 2) + 1, hi)

\* A string as JSON text.
JsonString(s) == <<34>> \o EscapeRange(s, 1, Len(s)) \o <<34>>

RECURSIVE JsonStrings(_, _)
JsonStrings(l, i) ==
    IF i > Len(l) THEN <<>>
    ELSE (IF i > 1 THEN <<44>> ELSE <<>>) \o JsonString(l[i])
         \o JsonStrings(l, i + 1)

\* serde_json::to_string of a Response: the fields of its variant only.
to_string(response) ==
    IF response.kind = "Code"
    THEN <<123>> \o JsonString(T_account) \o <<58>>
         \o JsonString(response.account) \o <<44>> \o JsonString(T_code)
         \o <<58>> \o JsonString(response.code) \o <<125>>
    ELSE IF response.kind = "AccountList"
    THEN <<123>> \o JsonString(T_accounts) \o <<58, 91>>
         \o JsonStrings(response.accounts, 1) \o <<93, 125>>
    ELSE <<123>> \o JsonString(T_error) \o <<58>>
         \o JsonString(response.error) \o <<125>>

\* u32::try_from(len).is_ok(): len < 2^32
FitsU32(len) == len.hi < 256

\* The number of characters of a UTF-8 string.
CharCount(s) == Cardinality({i \in DOMAIN s : s[i] < 128 \/ s[i] > 191})

\* serialize_response with the length in characters, not bytes.
serialize_response_chars(response, endian) ==
    Ok(to_ne_bytes(CountOf(CharCount(to_string(response))), endian)
       \o to_string(response))

\* serialize_response (api.rs 108-116)
serialize_response(response, endian) ==
    LET raw_output == to_string(response)
    IN  IF ~FitsU32(ByteCount(raw_output)) THEN Err("Write")
        ELSE Ok(to_ne_bytes(ByteCount(raw_output), endian) \o raw_output)

\* -------------------------------------------------------- handle_request
RECURSIVE Decimal(_)
Decimal(n) ==
    IF n < 10 THEN <<48 + n>> ELSE Append(Decimal(n \div 10), 48 + (n % 10))

RECURSIVE PadZeros(_, _)
PadZeros(digits, width) ==
    IF Len(digits) >= width THEN digits
    ELSE PadZeros(<<48>> \o digits, width)

\* format!("{}", code): no padding.
FormatUnpadded(code) == Decimal(code)

\* format!("{:06}", code) (api.rs 65) of an unsigned code: its decimal
\* digits, zero-filled on the left up to the minimum width 6.
Format06(code) == PadZeros(Decimal(code), 6)

\* format!("{:?}", e) (api.rs 51, 68) of Error::Yubikey(inner) and
\* Error::Oath(inner), the derived Debug of a tuple variant.
DebugError(variant, inner) ==
    (IF variant = "Yubikey" THEN T_Yubikey ELSE T_Oath)
    \o <<40>> \o inner \o <<41>>

\* ---------------------------------------------------------------- bounds
\* The most entries of a request object the parent sends.
MaxFields == 3

\* The longest stream of arbitrary bytes on stdin.
MaxRawLen == 5

\* The most bytes that follow the request frame on stdin.
MaxTrailing == 2

\* The most account names the credential engine lists.
MaxAccounts == 2

\* ---------------------------------------------------- what stdin can hold
SeqsUpTo(S, n) == UNION {[1..m -> S] : m \in 0..n}

\* An entry of a request object: a key and the JSON text of its value.
Entry(key, text) == [key |-> key, text |-> text]

V_x == <<34, 120, 34>>
V_22 == <<50, 50>>
\* [{"a":null},-1.5e3]
V_nested ==
    <<91, 123, 34, 97, 34, 58, 110, 117, 108, 108, 125, 44, 45, 49, 46, 53,
      101, 51, 93>>
\* 1e999, a JSON number beyond f64
V_1e999 == <<49, 101, 57, 57, 57>>

Entries ==
    { Entry(T_type, JsonString(T_Code)), Entry(T_type, JsonString(T_AccountList)),
      Entry(T_type, V_x), Entry(T_type, V_22),
      Entry(T_account, V_x), Entry(T_account, V_22),
      Entry(T_extra, V_x), Entry(T_extra, V_nested), Entry(T_extra, V_1e999) }

RECURSIVE RenderEntries(_, _)
RenderEntries(f, i) ==
    IF i > Len(f) THEN <<>>
    ELSE (IF i > 1 THEN <<44>> ELSE <<>>)
         \o <<34>> \o f[i].key \o <<34, 58>> \o f[i].text
         \o RenderEntries(f, i + 1)

\* The JSON object with the entries f, in order.
RenderObject(f) == <<123>> \o RenderEntries(f, 1) \o <<125>>

FieldSeqs == SeqsUpTo(Entries, MaxFields)

\* The two requests in the form the parent's encoder writes them.
TextAccountList == RenderObject(<<Entry(T_type, JsonString(T_AccountList))>>)

TextCode ==
    RenderObject(<<Entry(T_type, JsonString(T_Code)), Entry(T_account, V_x)>>)

ValidTexts == {TextAccountList, TextCode}

DropLast(t) == SubSeq(t, 1, Len(t) - 1)

\* Numbers at the edge of f64: 1e308, 179769313486231580e291, 0e400,
\* 1e-400 and 0.001e311 are in range,
NumbersInRange ==
    { <<49, 101, 51, 48, 56>>,
      <<49, 55, 57, 55, 54, 57, 51, 49, 51, 52, 56, 54, 50, 51, 49, 53, 56, 48,
        101, 50, 57, 49>>,
      <<48, 101, 52, 48, 48>>,
      <<49, 101, 45, 52, 48, 48>>,
      <<48, 46, 48, 48, 49, 101, 51, 49, 49>> }

\* and 1e400, 2e308, 1.7976931348623157999e308, 179769313486231600e291 and
\* 18446744073709551616e289 are not.
NumbersOutOfRange ==
    { <<49, 101, 52, 48, 48>>,
      <<50, 101, 51, 48, 56>>,
      <<49, 46, 55, 57, 55, 54, 57, 51, 49, 51, 52, 56, 54, 50, 51, 49, 53, 55,
        57, 57, 57, 101, 51, 48, 56>>,
      <<49, 55, 57, 55, 54, 57, 51, 49, 51, 52, 56, 54, 50, 51, 49, 54, 48, 48,
        101, 50, 57, 49>>,
      <<49, 56, 52, 52, 54, 55, 52, 52, 48, 55, 51, 55, 48, 57, 53, 53, 49, 54,
        49, 54, 101, 50, 56, 57>> }

\* Payloads that are not what the encoder writes, by the kind of defect.
Sample(category, text) == [category |-> category, fields |-> <<>>, text |-> text]

DefectSamples ==
    {Sample("empty", <<>>)}
    \cup {Sample("non_utf8", t) :
            t \in {<<255>>, <<192, 128>>, <<237, 160, 128>>,
                   DropLast(DropLast(TextCode)) \o <<255, 34, 125>>,
                   TextAccountList \o <<255>>}}
    \cup {Sample("malformed", t) :
            t \in {DropLast(v) : v \in ValidTexts}
                  \cup {DropLast(DropLast(TextCode)) \o <<125>>,
                        DropLast(TextAccountList) \o <<44, 125>>,
                        <<123, 116, 121, 112, 101, 58, 49, 125>>,
                        DropLast(DropLast(TextCode)) \o <<10, 34, 125>>,
                        DropLast(DropLast(TextCode)) \o <<92, 117, 100, 56,
                                                          48, 48, 34, 125>>,
                        DropLast(TextAccountList) \o <<44, 34, 122, 34, 58, 48,
                                                       49, 125>>}}
    \cup {Sample("out_of_range",
                 DropLast(TextAccountList) \o <<44, 34, 122, 34, 58>> \o n
                 \o <<125>>) : n \in NumbersOutOfRange}
    \cup {Sample("leading", <<50, 49, 51, 52>> \o v) : v \in ValidTexts}
    \cup {Sample("leading", <<44>> \o v) : v \in ValidTexts}
    \cup {Sample("trailing", v \o <<50, 51, 49, 52, 49, 50>>) : v \in ValidTexts}
    \cup {Sample("trailing", v \o v) : v \in ValidTexts}
    \cup {Sample("not_object", t) :
            t \in {V_22, JsonString(T_AccountList), <<110, 117, 108, 108>>,
                   <<116, 114, 117, 101>>, <<91, 93>>,
                   <<91>> \o V_22 \o <<93>>}}

\* Payloads the code accepts although the encoder does not write them so:
\* whitespace around the tokens, escapes in a key or a value, the array
\* form of a tagged enum, numbers at the edge of f64.
ToleratedSamples ==
    {Sample("whitespace", <<32, 10>> \o v \o <<9, 13>>) : v \in ValidTexts}
    \cup {Sample("whitespace",
                 <<123, 32>> \o JsonString(T_type) \o <<32, 58, 32>>
                 \o JsonString(T_AccountList) \o <<32, 125>>)}
    \cup {Sample("escapes",
                 <<123, 34, 116, 121, 92, 117, 48, 48, 55, 48, 101, 34, 58>>
                 \o JsonString(T_Code) \o <<44>> \o JsonString(T_account)
                 \o <<58, 34, 92, 110, 92, 117, 48, 48, 101, 57, 92, 117, 100,
                      56, 51, 100, 92, 117, 100, 101, 48, 48, 195, 169, 34,
                      125>>)}
    \cup {Sample("array", <<91>> \o JsonString(T_AccountList) \o <<93>>),
          Sample("array", <<91>> \o JsonString(T_Code) \o <<44>> \o V_x \o <<93>>)}
    \cup {Sample("number",
                 DropLast(TextAccountList) \o <<44, 34, 122, 34, 58>> \o n
                 \o <<125>>) : n \in NumbersInRange}

\* 2^31 bytes '0'.
LongZeros == <<Run(1073741824), Run(1073741824)>>

\* Payloads of gigabytes: a request with an unknown entry "z" that is a
\* number of more than 2^31 digits (0.00...01 and 1844674407370955161600...0),
\* a discriminator that is an array holding such a number, and a Code
\* request whose account is 2^32 - 30 bytes '0' (the payload still fits a
\* frame, the response to it does not).
LongSamples ==
    {Sample("long_number",
            DropLast(TextAccountList) \o <<44, 34, 122, 34, 58>> \o n
            \o <<125>>) :
        n \in {<<48, 46>> \o LongZeros \o <<49>>,
               <<49, 56, 52, 52, 54, 55, 52, 52, 48, 55, 51, 55, 48, 57, 53,
                 53, 49, 54, 49, 54>> \o LongZeros}}
    \cup {Sample("long_tag",
                 <<123>> \o JsonString(T_type) \o <<58, 91, 48, 46>>
                 \o LongZeros \o <<49, 93, 125>>)}
    \cup {Sample("long_account",
                 <<123>> \o JsonString(T_type) \o <<58>> \o JsonString(T_Code)
                 \o <<44>> \o JsonString(T_account) \o <<58, 34>>
                 \o LongZeros \o <<Run(1073741824), Run(1073741794), 34,
                                   125>>)}

ObjectSamples ==
    {[category |-> "object", fields |-> f, text |-> RenderObject(f)] :
        f \in FieldSeqs}

RawBytes == {0, 1, 2, 255}

TrailBytes == {0, 123}

\* What the parent put on stdin: a payload in a frame, bytes after it.
Sent(sample, trail, endian) ==
    [category |-> sample.category, fields |-> sample.fields,
     text |-> sample.text, trail |-> trail,
     stream |-> to_ne_bytes(ByteCount(sample.text), endian) \o sample.text
                \o trail]

\* A stream that is no frame of a sample: arbitrary bytes, or a frame cut
\* short by n bytes.
SentRaw(category, bytes) ==
    [category |-> category, fields |-> <<>>, text |-> <<>>, trail |-> <<>>,
     stream |-> bytes]

\* What the parent may put on stdin.  One trail, of 9000 bytes, is more
\* than the buffer of io::stdin() takes; in one stream the frame ends
\* inside a run of '0' bytes.
Inputs(endian) ==
    {Sent(x, <<>>, endian) :
        x \in ObjectSamples \cup DefectSamples \cup ToleratedSamples
              \cup LongSamples}
    \cup {Sent(Sample("valid", v), t, endian) :
            v \in ValidTexts,
            t \in (SeqsUpTo(TrailBytes, MaxTrailing) \ {<<>>})
                  \cup {<<Run(9000)>>}}
    \cup {SentRaw("raw", b) :
            b \in SeqsUpTo(RawBytes, MaxRawLen) \cup {<<5, 0, 0, 0, Run(10)>>}}
    \cup UNION {{SentRaw("cut", SubSeq(Sent(Sample("valid", v), <<>>,
                                             endian).stream, 1, n)) :
                    n \in 1..(Len(v) + 3)} : v \in ValidTexts}

\* ----------------------------------------------- what the collaborators do
\* The Debug texts of the collaborators' errors (yubikey::Error and
\* oath::Error are not part of api.rs): opaque text, one with characters
\* JSON escapes, and two long ones, of 245 and 1013 bytes, with which the
\* Error frames are of 267, 270, 1035 and 1038 bytes.
DebugTexts ==
    {<<69>>, <<80, 40, 34, 92, 10, 34, 41>>, [i \in 1..245 |-> 69],
     [i \in 1..1013 |-> 69]}

\* Account names the engine lists.
AccountNames == {<<97>>, <<34, 195, 169>>}

\* Codes the engine computes.
OtpValues == {0, 6, 42, 99999, 123456, 999999, 1000000, 12345678, 2147483647}

\* time::get_time()
Timestamps == {0, 1700000000}

\* ------------------------------------------------------------ io::stdin
\* io::stdin() is a BufReader over descriptor 0: what read_input consumes
\* of it and what the process takes from the descriptor differ.  The
\* stream holds all its bytes when serve starts (a file, or a pipe the
\* parent has written), so that a read of the descriptor transfers as many
\* bytes as it asks for, up to the end of the stream.

\* The capacity of the buffer of io::stdin().
StdinBufSize == 8192

\* The most bytes one read of a descriptor transfers (Linux).
ReadLimit == 2147479552

\* read on the descriptor for want bytes, left bytes being in the stream.
RawRead(want, left) ==
    IF CountLeq(left, want) /\ CountLeq(left, CountOf(ReadLimit)) THEN left
    ELSE IF CountLeq(want, CountOf(ReadLimit)) THEN want
    ELSE CountOf(ReadLimit)

\* What BufReader::read asks of the descriptor when its buffer is empty and
\* the caller's buffer has need bytes: a caller's buffer of at least the
\* capacity is read into directly, else the reader's buffer is filled.
Asked(need) ==
    IF CountLeq(CountOf(StdinBufSize), need) THEN need
    ELSE CountOf(StdinBufSize)

RECURSIVE default_read_exact(_, _, _)

\* After a read that transferred got bytes: none is the end of the stream,
\* fewer than needed calls for another read.
AfterRead(fetched, need, total, got) ==
    IF got = CountOf(0) THEN [ok |-> FALSE, fetched |-> fetched]
    ELSE IF CountLeq(need, got)
    THEN [ok |-> TRUE, fetched |-> CountSum(fetched, got)]
    ELSE default_read_exact(CountSum(fetched, got), CountMinus(need, got),
                            total)

\* default_read_exact on the BufReader with its buffer empty: need bytes
\* are still to be read, fetched of the total bytes of the stream have been
\* taken from the descriptor.
default_read_exact(fetched, need, total) ==
    AfterRead(fetched, need, total,
              RawRead(Asked(need), CountMinus(total, fetched)))

\* BufReader::read_exact for need bytes, pos being what has been consumed
\* of the reader: the bytes held in the buffer serve first.
StdinReadExact(fetched, pos, need, total) ==
    IF CountLeq(need, CountMinus(fetched, pos))
    THEN [ok |-> TRUE, fetched |-> fetched]
    ELSE default_read_exact(fetched,
                            CountMinus(need, CountMinus(fetched, pos)),
                            total)

\* After the prefix was read: the payload of the length it holds.
StdinPayload(stream, endian, prefix) ==
    IF ~prefix.ok THEN prefix.fetched
    ELSE StdinReadExact(prefix.fetched, CountOf(4),
                        InputLength(read_exact(stream, CountOf(4)), endian),
                        ByteCount(stream)).fetched

\* The number of bytes the process has taken from descriptor 0 when
\* read_input(&mut io::stdin()) returns.
StdinFetched(stream, endian) ==
    StdinPayload(stream, endian,
                 StdinReadExact(CountOf(0), CountOf(0), CountOf(4),
                                ByteCount(stream)))

\* ----------------------------------------------------------------- state
VARIABLES
    endian,      \* the build's native byte order
    overflow_checks, \* whether the build has overflow checks
    sent,        \* what the parent process put on stdin (Inputs)
    stdin,       \* the bytes of the inbound stream
    consumed,    \* how many of them read_input has consumed of its
                 \* reader, io::stdin()
    fetched,     \* how many of them the process has taken from the
                 \* descriptor (into the buffer of io::stdin() or the Vec)
    stdout,      \* the bytes the outbound stream has taken (what the
                 \* parent process receives)
    buffer,      \* the bytes held in the buffer of io::stdout()
    descriptor,  \* the outbound stream: "unused", "open", "closed" (no
                 \* open descriptor), "failed" (a write to it failed)
    exited,      \* whether the process has exited
    pc,          \* the step serve is at
    raw_input,   \* read_input's Vec<u8>
    request,     \* the decoded Request
    timestamp,   \* read_otp's timestamp
    calls,       \* the collaborator calls made so far, in order
    response,    \* handle_request's Response
    raw_output,  \* serialize_response's frame
    writes,      \* the number of write_all calls on stdout
    result       \* what serve returned: "Ok", "Read", "Write"; "Panic" when
                 \* it did not return

vars ==
    <<endian, overflow_checks, sent, stdin, consumed, fetched, stdout,
              buffer, descriptor, exited, pc, raw_input, request, timestamp,
              calls, response, raw_output, writes, result>>

Init ==
    /\ endian \in {"little", "big"}
    /\ overflow_checks \in BOOLEAN
    /\ sent \in Inputs(endian)
    /\ stdin = sent.stream
    /\ consumed = CountOf(0)
    /\ fetched = CountOf(0)
    /\ stdout = <<>>
    /\ buffer = <<>>
    /\ descriptor = "unused"
    /\ exited = FALSE
    /\ pc = "read_input"
    /\ raw_input = <<>>
    /\ request = [type |-> "none"]
    /\ timestamp = 0
    /\ calls = <<>>
    /\ response = [kind |-> "none"]
    /\ raw_output = <<>>
    /\ writes = 0
    /\ result = "running"

\* A collaborator call: the function, whether it returned Ok, and what it
\* returned (the value, or the Debug text of the error).
Call(fn, ok, ret) == [fn |-> fn, ok |-> ok, ret |-> ret]

\* serve returns the error e: nothing after the failed step runs.
Fails(e) == pc' = "done" /\ result' = e

\* read() (api.rs 78): read_input(&mut io::stdin())
ReadInput ==
    /\ pc = "read_input"
    /\ LET r == read_input(stdin, endian)
       IN  /\ consumed' = r.pos
           /\ fetched' = StdinFetched(stdin, endian)
           /\ IF r.ok
              THEN raw_input' = r.val /\ pc' = "deserialize_request"
                   /\ result' = result
              ELSE raw_input' = raw_input /\ Fails(r.err)
    /\ UNCHANGED <<buffer, descriptor, exited, endian, overflow_checks, sent,
                   stdin, stdout, request, timestamp, calls, response,
                   raw_output, writes>>

\* read() (api.rs 78): .and_then(|r| deserialize_request(&r))
DeserializeRequest ==
    /\ pc = "deserialize_request"
    /\ LET r == deserialize_request(raw_input, overflow_checks)
       IN  IF r.ok
           THEN request' = r.val /\ pc' = "handle_request" /\ result' = result
           ELSE request' = request /\ Fails(r.err)
    /\ UNCHANGED <<buffer, descriptor, exited, endian, overflow_checks, sent,
                   stdin, consumed, fetched, stdout, raw_input, timestamp,
                   calls, response, raw_output, writes>>

\* handle_request (api.rs 34-39)
HandleRequest ==
    /\ pc = "handle_request"
    /\ pc' = IF request.type = "Code" THEN "read_otp" ELSE "initialize"
    /\ UNCHANGED <<buffer, descriptor, exited, endian, overflow_checks, sent,
                   stdin, consumed, fetched, stdout, raw_input, request,
                   timestamp, calls, response, raw_output, writes, result>>

\* read_otp (api.rs 57): let timestamp = time::get_time()
GetTime ==
    /\ pc = "read_otp"
    /\ \E t \in Timestamps :
         /\ timestamp' = t
         /\ calls' = Append(calls, Call("get_time", TRUE, t))
    /\ pc' = "initialize"
    /\ UNCHANGED <<buffer, descriptor, exited, endian, overflow_checks, sent,
                   stdin, consumed, fetched, stdout, raw_input, request,
                   response, raw_output, writes, result>>

\* Initialize with the store's failure dropped: the engine is called with
\* whatever handle there is.
InitializeUnchecked ==
    /\ pc = "initialize"
    /\ \/ calls' = Append(calls, Call("initialize", TRUE, <<>>))
       \/ \E e \in DebugTexts :
            calls' = Append(calls, Call("initialize", FALSE, e))
    /\ pc' = "engine"
    /\ UNCHANGED <<buffer, descriptor, exited, endian, overflow_checks, sent,
                   stdin, consumed, fetched, stdout, raw_input, request,
                   timestamp, response, raw_output, writes, result>>

\* Initialize trying the store a second time after a first failure.
InitializeRetry ==
    /\ pc = "initialize"
    /\ \/ /\ calls' = Append(calls, Call("initialize", TRUE, <<>>))
          /\ pc' = "engine"
          /\ response' = response
       \/ \E e \in DebugTexts :
            /\ calls' = Append(calls, Call("initialize", FALSE, e))
            /\ IF calls = <<>> \/ calls[Len(calls)].fn # "initialize"
               THEN pc' = "initialize" /\ response' = response
               ELSE /\ response' = ResponseError(DebugError("Yubikey", e))
                    /\ pc' = "serialize_response"
    /\ UNCHANGED <<buffer, descriptor, exited, endian, overflow_checks, sent,
                   stdin, consumed, fetched, stdout, raw_input, request,
                   timestamp, raw_output, writes, result>>

\* yubikey::Yubikey::initialize().map_err(Error::Yubikey) (api.rs 42-43,
\* 58-59): on Err the and_then closure is skipped and the match arm builds
\* Response::Error from the Debug text (api.rs 50-52, 67-69).
Initialize ==
    /\ pc = "initialize"
    /\ \/ /\ calls' = Append(calls, Call("initialize", TRUE, <<>>))
          /\ pc' = "engine"
          /\ response' = response
       \/ \E e \in DebugTexts :
            /\ calls' = Append(calls, Call("initialize", FALSE, e))
            /\ response' = ResponseError(DebugError("Yubikey", e))
            /\ pc' = "serialize_response"
    /\ UNCHANGED <<buffer, descriptor, exited, endian, overflow_checks, sent,
                   stdin, consumed, fetched, stdout, raw_input, request,
                   timestamp, raw_output, writes, result>>

\* read_accounts_list (api.rs 44-53): oath::list_credentials(&y) and the
\* match on its result.
ListCredentials ==
    /\ pc = "engine"
    /\ request.type = "AccountList"
    /\ \/ \E account_vec \in SeqsUpTo(AccountNames, MaxAccounts) :
            /\ calls' = Append(calls, Call("list_credentials", TRUE, account_vec))
            /\ response' = ResponseAccountList(account_vec)
       \/ \E e \in DebugTexts :
            /\ calls' = Append(calls, Call("list_credentials", FALSE, e))
            /\ response' = ResponseError(DebugError("Oath", e))
    /\ pc' = "serialize_response"
    /\ UNCHANGED <<buffer, descriptor, exited, endian, overflow_checks, sent,
                   stdin, consumed, fetched, stdout, raw_input, request,
                   timestamp, raw_output, writes, result>>

\* read_otp (api.rs 60-70): oath::calculate_fuzzy(&y, search_term,
\* timestamp) and the match on its result.
CalculateFuzzy ==
    /\ pc = "engine"
    /\ request.type = "Code"
    /\ \/ \E code \in OtpValues :
            /\ calls' = Append(calls, Call("calculate_fuzzy", TRUE, code))
            /\ response' = ResponseCode(request.account, Format06(code))
       \/ \E e \in DebugTexts :
            /\ calls' = Append(calls, Call("calculate_fuzzy", FALSE, e))
            /\ response' = ResponseError(DebugError("Oath", e))
    /\ pc' = "serialize_response"
    /\ UNCHANGED <<buffer, descriptor, exited, endian, overflow_checks, sent,
                   stdin, consumed, fetched, stdout, raw_input, request,
                   timestamp, raw_output, writes, result>>

\* write (api.rs 82): serialize_response(response)
SerializeResponse ==
    /\ pc = "serialize_response"
    /\ LET r == serialize_response(response, endian)
       IN  IF r.ok
           THEN raw_output' = r.val /\ pc' = "write_output" /\ result' = result
           ELSE raw_output' = raw_output /\ Fails(r.err)
    /\ UNCHANGED <<buffer, descriptor, exited, endian, overflow_checks, sent,
                   stdin, consumed, fetched, stdout, raw_input, request,
                   timestamp, calls, response, writes>>

\* ------------------------------------------------------------ io::stdout
\* The capacity of the LineWriter behind io::stdout().
Capacity == 1024

\* memchr::memrchr(b'\n', buf): the index of the last newline byte of buf,
\* 0 if it has none.
LastNewline(buf) ==
    LET at == {i \in DOMAIN buf : buf[i] = 10}
    IN  IF at = {} THEN 0 ELSE CHOOSE i \in at : \A j \in at : j <= i

\* The numbers of elements of an n-element buffer the stream may have taken
\* when a write_all on it returns: all n, or fewer when a write failed
\* (none, part of the prefix, the prefix alone, all but the last).
WritePoints(n) == {k \in {0, 3, 4, n - 1, n} : k >= 0 /\ k <= n}

\* StdoutRaw::write_all(buf): the descriptor takes k of the elements of buf
\* before a write fails (all of them: none fails).  Without an open
\* descriptor (EBADF) nothing is taken and success is reported
\* (handle_ebadf).
RawWriteAll(open, buf, k) ==
    IF ~open THEN [ok |-> TRUE, out |-> <<>>]
    ELSE [ok |-> k = Len(buf), out |-> SubSeq(buf, 1, k)]

\* BufWriter::write_all(buf) on the empty buffer: fewer bytes than the
\* capacity are held, others are passed on at once.
BufWriterWriteAll(open, buf, k) ==
    IF ~CountLeq(CountOf(Capacity), ByteCount(buf))
    THEN [ok |-> TRUE, out |-> <<>>, held |-> buf]
    ELSE [ok |-> RawWriteAll(open, buf, k).ok,
          out |-> RawWriteAll(open, buf, k).out, held |-> <<>>]

\* LineWriterShim::write_all after the lines: a failure ends it, else the
\* tail goes to the BufWriter.
LineWriterTail(open, lines, tail, k) ==
    IF ~lines.ok THEN [ok |-> FALSE, out |-> lines.out, held |-> <<>>]
    ELSE [ok |-> BufWriterWriteAll(open, tail, k).ok,
          out |-> lines.out \o BufWriterWriteAll(open, tail, k).out,
          held |-> BufWriterWriteAll(open, tail, k).held]

\* LineWriterShim::write_all(buf) on the empty buffer (serve is the first
\* to write to stdout): the bytes up to the last newline byte are written
\* to the descriptor at once, the bytes after it (all of buf if it has no
\* newline byte) go to the BufWriter.  The JSON text has no newline byte,
\* the length prefix can have one.  k1 and k2 are what the descriptor takes
\* of the two parts.
LineWriterWriteAll(open, buf, k1, k2) ==
    LineWriterTail(open,
                   RawWriteAll(open, SubSeq(buf, 1, LastNewline(buf)), k1),
                   SubSeq(buf, LastNewline(buf) + 1, Len(buf)), k2)

\* The state of the descriptor after a write_all.
Descriptor(open, ok) ==
    IF ~open THEN "closed" ELSE IF ok THEN "open" ELSE "failed"

\* WriteOutput with write in place of write_all: a short write is Ok.
WriteOutputShort ==
    /\ pc = "write_output"
    /\ \E open \in BOOLEAN,
          k1 \in WritePoints(LastNewline(raw_output)),
          k2 \in WritePoints(Len(raw_output) - LastNewline(raw_output)) :
         /\ stdout' = stdout
                \o LineWriterWriteAll(open, raw_output, k1, k2).out
         /\ buffer' = LineWriterWriteAll(open, raw_output, k1, k2).held
         /\ descriptor' =
               Descriptor(open, LineWriterWriteAll(open, raw_output, k1,
                                                   k2).ok)
         /\ result' = "Ok"
    /\ writes' = writes + 1
    /\ pc' = "done"
    /\ UNCHANGED <<exited, endian, overflow_checks, sent, stdin, consumed,
                   fetched, raw_input, request, timestamp, calls, response,
                   raw_output>>

\* write_output (api.rs 99-101): buffer.write_all(raw_output)
\*     .map_err(|_| Error::Write), on io::stdout() (api.rs 82).
WriteOutput ==
    /\ pc = "write_output"
    /\ \E open \in BOOLEAN,
          k1 \in WritePoints(LastNewline(raw_output)),
          k2 \in WritePoints(Len(raw_output) - LastNewline(raw_output)) :
         /\ stdout' = stdout
                \o LineWriterWriteAll(open, raw_output, k1, k2).out
         /\ buffer' = LineWriterWriteAll(open, raw_output, k1, k2).held
         /\ descriptor' =
               Descriptor(open, LineWriterWriteAll(open, raw_output, k1,
                                                   k2).ok)
         /\ result' = IF LineWriterWriteAll(open, raw_output, k1, k2).ok
                      THEN "Ok" ELSE "Write"
    /\ writes' = writes + 1
    /\ pc' = "done"
    /\ UNCHANGED <<exited, endian, overflow_checks, sent, stdin, consumed,
                   fetched, raw_input, request, timestamp, calls, response,
                   raw_output>>

\* The process exits after serve has returned or panicked: the runtime
\* writes the bytes held in the buffer of stdout to the descriptor and
\* ignores a failure.
Exit ==
    /\ pc = "done"
    /\ ~exited
    /\ \E k \in WritePoints(Len(buffer)) :
         /\ stdout' = stdout \o RawWriteAll(descriptor = "open", buffer, k).out
         /\ descriptor' =
               IF descriptor = "open" /\ k < Len(buffer) THEN "failed"
               ELSE descriptor
    /\ buffer' = <<>>
    /\ exited' = TRUE
    /\ UNCHANGED <<endian, overflow_checks, sent, stdin, consumed, fetched, pc,
                   raw_input, request, timestamp, calls, response, raw_output,
                   writes, result>>

\* serve (api.rs 73-75), and the exit of the process
Next ==
    \/ ReadInput
    \/ DeserializeRequest
    \/ HandleRequest
    \/ GetTime
    \/ Initialize
    \/ ListCredentials
    \/ CalculateFuzzy
    \/ SerializeResponse
    \/ WriteOutput
    \/ Exit

Spec == Init /\ [][Next]_vars

\* ================================================================ claims
Decoded == request.type # "none"

\* serve is past read() (api.rs 78).
PastRead == pc \notin {"read_input", "deserialize_request"}

IsPrefix(p, q) == Len(p) <= Len(q) /\ p = SubSeq(q, 1, Len(p))

EngineCalls == {"list_credentials", "calculate_fuzzy"}

CallsOf(fns) == {i \in DOMAIN calls : calls[i].fn \in fns}

FailedCalls == {i \in DOMAIN calls : ~calls[i].ok}

\* The bytes of stdout are one frame holding the JSON text of response.
OneValidFrame ==
    /\ response.kind \in {"Code", "AccountList", "Error"}
    /\ LET r == read_input(stdout, endian)
       IN  r.ok /\ r.val = to_string(response)
           /\ r.pos = ByteCount(stdout)

\* C1 as stated: once a Request was decoded, the parent process has
\* received exactly one valid response frame when the process has exited,
\* whatever the store, the engine and the output stream did.
C1_AlwaysOneFrame == (exited /\ Decoded) => OneValidFrame

\* C1 amended: once a Request was decoded, serve builds exactly one Response
\* whatever the store and the engine do (a failed collaborator call gives
\* the Error variant).  If its JSON text is longer than u32::MAX bytes,
\* serve ends with the Write error and writes nothing.  Otherwise it calls
\* write_all once, with the one frame of the Response, and the parent
\* never receives anything but a prefix of that frame: the whole frame, by
\* the time the process has exited, if no write to the stream fails, a
\* proper prefix (possibly nothing) if one fails, and nothing if stdout has
\* no open descriptor.  serve ends with the Write error only when a write
\* fails that write_all passes to the stream itself, which it does for a
\* frame of at least Capacity bytes or with a newline byte in its prefix; a
\* frame held in the buffer of stdout, or written to no descriptor, makes
\* serve return Ok whatever becomes of it.
C1_OneFrameUnlessWriteFails ==
    /\ pc # "done" => (stdout = <<>> /\ buffer = <<>> /\ writes = 0)
    /\ IsPrefix(stdout, raw_output)
    /\ exited => buffer = <<>>
    /\ (pc = "done" /\ Decoded) =>
          /\ response.kind \in {"Code", "AccountList", "Error"}
          /\ FailedCalls # {} => response.kind = "Error"
          /\ result \in {"Ok", "Write"}
          /\ IF FitsU32(ByteCount(to_string(response)))
             THEN /\ writes = 1
                  /\ raw_output = serialize_response(response, endian).val
                  /\ LastNewline(raw_output) <= 4
                  /\ descriptor \in {"open", "closed", "failed"}
                  /\ descriptor = "open" =>
                        /\ result = "Ok"
                        /\ stdout \o buffer = raw_output
                        /\ exited => OneValidFrame
                  /\ descriptor = "failed" =>
                        /\ buffer = <<>>
                        /\ Len(stdout) < Len(raw_output)
                        /\ result = "Ok" => exited
                  /\ descriptor = "closed" =>
                        (result = "Ok" /\ stdout = <<>>)
                  /\ result = "Write" =>
                        /\ descriptor = "failed"
                        /\ \/ LastNewline(raw_output) > 0
                           \/ Len(raw_output) >= Capacity
             ELSE /\ result = "Write"
                  /\ writes = 0
                  /\ descriptor = "unused"
                  /\ raw_output = <<>> /\ stdout = <<>> /\ buffer = <<>>

\* A collaborator failed, the Error frame went to the buffer of stdout and
\* serve returned Ok; the stream failed when the process exited, and the
\* parent has a part of the frame.
C1_Witness ==
    /\ exited /\ Decoded /\ result = "Ok"
    /\ FailedCalls # {} /\ response.kind = "Error"
    /\ descriptor = "failed"
    /\ stdout # <<>> /\ Len(stdout) < Len(raw_output)

\* C2: if reading the frame or decoding its payload fails, serve ends with
\* the Read error, no byte is written to stdout, no Response is built and
\* no collaborator is called: past read() there is either a Request, which
\* the frame on stdin decodes to, or the Read error and nothing else.
C2_ReadFailureWritesNothing ==
    /\ (PastRead /\ ~Decoded) => (pc = "done" /\ result = "Read")
    /\ result = "Read" =>
          /\ ~Decoded
          /\ stdout = <<>> /\ writes = 0 /\ raw_output = <<>>
          /\ response.kind = "none" /\ calls = <<>>
    /\ pc = "handle_request" =>
          LET r == read_input(stdin, endian)
          IN  /\ r.ok
              /\ deserialize_request(r.val, overflow_checks).ok
              /\ request = deserialize_request(r.val, overflow_checks).val

\* C3: when the store's initialize fails, for either request variant, the
\* Response is the Error variant with the error text as its only field,
\* its JSON text is {"error":"..."} and the engine is never called.
C3_InitFailureIsErrorOnly ==
    \A i \in CallsOf({"initialize"}) :
        ~calls[i].ok =>
           /\ i = Len(calls)
           /\ CallsOf(EngineCalls) = {}
           /\ response.kind = "Error"
           /\ DOMAIN response = {"kind", "error"}
           /\ response.error = T_Yubikey \o <<40>> \o calls[i].ret \o <<41>>
           /\ to_string(response)
                 = <<123, 34>> \o T_error \o <<34, 58>>
                   \o JsonString(response.error) \o <<125>>
           /\ pc \in {"serialize_response", "write_output", "done"}

\* A Code request met a store that failed to initialize; serve ended.
C3_Witness ==
    /\ pc = "done" /\ request.type = "Code"
    /\ \E i \in CallsOf({"initialize"}) : ~calls[i].ok

IsDigits(str) == \A i \in DOMAIN str : IsDigit(str[i])

\* The code the engine returned to this invocation.
EngineCode == calls[Len(calls)].ret

\* C4 as stated: the code field is a string of exactly 6 decimal digits for
\* every value the engine returns.
C4_ExactlySixDigits ==
    response.kind = "Code" => Len(response.code) = 6 /\ IsDigits(response.code)

\* The number of decimal digits of n.
NumDigits(n) ==
    CASE n < 10 -> 1
      [] n >= 10 /\ n < 100 -> 2
      [] n >= 100 /\ n < 1000 -> 3
      [] n >= 1000 /\ n < 10000 -> 4
      [] n >= 10000 /\ n < 100000 -> 5
      [] n >= 100000 /\ n < 1000000 -> 6
      [] n >= 1000000 /\ n < 10000000 -> 7
      [] n >= 10000000 /\ n < 100000000 -> 8
      [] n >= 100000000 /\ n < 1000000000 -> 9
      [] OTHER -> 10

\* C4 amended: the code field is the decimal text of the value the engine
\* returned, left-padded with zeros to at least 6 digits: exactly 6 digits
\* for a value below 1000000 (42 gives "000042"), and the value's own 7 to
\* 10 digits, unpadded and untruncated, for a larger one.
C4_AtLeastSixDigits ==
    response.kind = "Code" =>
       /\ IsDigits(response.code)
       /\ DecValue(response.code, 1, Len(response.code) + 1, 0) = EngineCode
       /\ EngineCode < 1000000 => Len(response.code) = 6
       /\ EngineCode >= 1000000 => Len(response.code) = NumDigits(EngineCode)
       /\ response.account = request.account

\* The engine returned 42 and the response carries "000042".
C4_Witness ==
    /\ response.kind = "Code" /\ EngineCode = 42
    /\ response.code = <<48, 48, 48, 48, 52, 50>>

\* The u32 the first four bytes of a frame hold, in the build's byte order.
PrefixValue(frame) ==
    IF endian = "little"
    THEN frame[1] + 256 * frame[2] + 65536 * frame[3] + 16777216 * frame[4]
    ELSE frame[4] + 256 * frame[3] + 65536 * frame[2] + 16777216 * frame[1]

\* C5: the frame serialize_response builds is a 4-byte native-order prefix
\* equal to the byte length of the JSON payload, followed by the payload,
\* and read_input on the frame returns the payload and consumes all of it.
C5_FramingRoundTrip ==
    raw_output # <<>> =>
       LET payload == to_string(response)
           r == read_input(raw_output, endian)
       IN  /\ Len(raw_output) = 4 + Len(payload)
           /\ PrefixValue(raw_output) = Len(payload)
           /\ SubSeq(raw_output, 5, Len(raw_output)) = payload
           /\ r.ok /\ r.val = payload /\ r.pos = ByteCount(raw_output)

\* A frame whose payload holds two account names with escaped and
\* multi-byte characters.
C5_Witness ==
    /\ raw_output # <<>> /\ response.kind = "AccountList"
    /\ Len(response.accounts) = 2
    /\ response.accounts[1] = <<34, 195, 169>>

\* The length the first four bytes of a frame hold, as a count.
PrefixCount(frame) ==
    IF endian = "little"
    THEN [hi |-> frame[4],
          lo |-> frame[1] + 256 * frame[2] + 65536 * frame[3]]
    ELSE [hi |-> frame[1],
          lo |-> frame[4] + 256 * frame[3] + 65536 * frame[2]]

\* Whether stream ends before the payload bytes its prefix declares.
EndsEarly(stream) ==
    ~CountLeq(PrefixCount(stream), ByteCount(SubSeq(stream, 5, Len(stream))))

\* C6: read_input fails with the Read error when stdin ends before the 4
\* prefix bytes or before the payload bytes the prefix declares (an empty
\* stdin included); a payload it returns has the declared length.
C6_ShortStreamIsReadError ==
    pc # "read_input" =>
       IF Len(stdin) < 4 \/ EndsEarly(stdin)
       THEN /\ pc = "done" /\ result = "Read"
            /\ raw_input = <<>> /\ ~Decoded /\ stdout = <<>>
       ELSE /\ ByteCount(raw_input) = PrefixCount(stdin)
            /\ consumed = CountPlus(ByteCount(raw_input), 4)

\* The prefix was there and declared more bytes than followed.
C6_Witness ==
    /\ pc = "done" /\ result = "Read" /\ sent.category = "cut"
    /\ Len(stdin) > 4 /\ raw_input = <<>>

\* stdin holds a whole frame (and perhaps bytes after it).
Framed == sent.category \notin {"raw", "cut"}

\* What is left of stream after its first c bytes.
After(stream, c) == read_exact(stream, c).rest

\* C7: on a stdin holding a frame and further bytes read_input consumes the
\* 4 + L bytes of the frame and returns its L payload bytes; the further
\* bytes stay unconsumed in the stream it reads, io::stdin() (whatever its
\* buffer has taken from the descriptor), and change neither the payload
\* nor the Request.
C7_TrailingBytesUntouched ==
    (pc # "read_input" /\ Framed) =>
       /\ raw_input = sent.text
       /\ consumed = CountPlus(ByteCount(sent.text), 4)
       /\ After(stdin, consumed) = sent.trail
       /\ CountLeq(consumed, fetched) /\ CountLeq(fetched, ByteCount(stdin))
       /\ (pc = "handle_request" \/ (pc = "done" /\ ~Decoded)) =>
             LET alone == deserialize_request(sent.text, overflow_checks)
             IN  IF alone.ok THEN Decoded /\ request = alone.val
                 ELSE ~Decoded

\* Two bytes followed the frame and were taken into the buffer of
\* io::stdin(); read_input left them there, the request was served.
C7_Witness ==
    /\ pc = "done" /\ result = "Ok" /\ Len(sent.trail) = 2
    /\ consumed = CountOf(Len(stdin) - 2) /\ raw_input = sent.text
    /\ fetched = CountOf(Len(stdin))

HasEntry(f, key, text) == \E i \in DOMAIN f : f[i] = Entry(key, text)

HasKey(f, key) == \E i \in DOMAIN f : f[i].key = key

\* The entries f of an object that cannot be a Request for one of the
\* reasons C8 lists: no discriminator, an unknown or wrong-typed one, a
\* Code without its account or with an account that is no string.
DefectiveFields(f) ==
    \/ ~HasKey(f, T_type)
    \/ HasEntry(f, T_type, V_x)
    \/ HasEntry(f, T_type, V_22)
    \/ /\ HasEntry(f, T_type, JsonString(T_Code))
       /\ (~HasKey(f, T_account) \/ HasEntry(f, T_account, V_22))

DefectCategories ==
    {"empty", "non_utf8", "malformed", "leading", "trailing", "not_object"}

\* C8: every failure of deserialize_request is the Read error and yields no
\* Request; and non-UTF-8 bytes, empty input, malformed JSON, characters
\* (other than whitespace) before or after the value, a missing or unknown
\* discriminator and a missing or wrong-typed account all fail so.
C8_DecodeFailureIsRead ==
    /\ result \in {"running", "Ok", "Read", "Write"}
    /\ (PastRead /\ ~Decoded) =>
          (pc = "done" /\ result = "Read" /\ request = [type |-> "none"])
    /\ (PastRead /\ Decoded) => result # "Read"
    /\ (PastRead /\ sent.category \in DefectCategories) =>
          (~Decoded /\ result = "Read")
    /\ (PastRead /\ sent.category = "object" /\ DefectiveFields(sent.fields))
          => (~Decoded /\ result = "Read")

\* The discriminator values of the entries f.
TagTexts(f) == {f[i].text : i \in {j \in DOMAIN f : f[j].key = T_type}}

\* Whether entry e of f is unknown to the variant f names: a key that is
\* neither the discriminator nor a field of the variant.
UnknownEntry(f, e) ==
    \/ e.key = T_extra
    \/ e.key = T_account /\ TagTexts(f) = {JsonString(T_AccountList)}

\* f without its unknown entries.
WithoutUnknown(f) == SelectSeq(f, LAMBDA e : ~UnknownEntry(f, e))

\* C9: a request object with unknown extra entries decodes to the Request
\* the object without them decodes to, and does not fail.  (It fails when
\* the value of an unknown entry is a number serde_json finds out of range,
\* such as 1e999: the entry is parsed in full before it is dropped.)
C9_UnknownFieldsIgnored ==
    (PastRead /\ sent.category = "object") =>
       LET known == WithoutUnknown(sent.fields)
           without == deserialize_request(RenderObject(known),
                                          overflow_checks)
       IN  without.ok =>
              /\ Decoded
              /\ request = without.val
              /\ known = <<Entry(T_type, JsonString(T_AccountList))>>
                    => request = RequestAccountList
              /\ Len(known) = 2 => request = RequestCode(<<120>>)

\* C10: in one invocation the store is initialized at most once and the
\* engine called at most once, only after a Request was decoded and the
\* initialization succeeded; a failed collaborator call is the last one
\* and the Response is the Error variant at once.
C10_NoRetries ==
    /\ Cardinality(CallsOf({"initialize"})) <= 1
    /\ Cardinality(CallsOf(EngineCalls)) <= 1
    /\ calls # <<>> => Decoded
    /\ \A i \in CallsOf(EngineCalls) :
          /\ i > 1 /\ calls[i - 1].fn = "initialize" /\ calls[i - 1].ok
          /\ calls[i].fn = (IF request.type = "Code" THEN "calculate_fuzzy"
                            ELSE "list_credentials")
    /\ \A i \in FailedCalls :
          /\ i = Len(calls)
          /\ response.kind = "Error"
          /\ pc \in {"serialize_response", "write_output", "done"}

\* The store opened, the engine failed, serve answered and ended.
C10_Witness ==
    /\ pc = "done" /\ Len(calls) = 2
    /\ calls[1].fn = "initialize" /\ calls[1].ok
    /\ calls[2].fn = "list_credentials" /\ ~calls[2].ok
    /\ response.kind = "Error" /\ result = "Ok"

====
